---- MODULE Spec2Model ----
(***************************************************************************)
(* csBot (src/bot.py): a Telegram bot that collects a pool of 10 players   *)
(* for a match and splits it into two teams of five.                       *)
(*                                                                         *)
(* The handlers are asyncio coroutines served by one event loop; every     *)
(* database function is synchronous (psycopg2), so a handler runs without  *)
(* interruption from one `await` to the next.  Each action below is one    *)
(* such uninterrupted segment of one handler.  Every database function     *)
(* opens its own connection and turns any exception into a default return  *)
(* value; whether a call fails is an input of the action (the ok flags).   *)
(* Sending a Telegram message (`await message.answer`) may raise, which    *)
(* ends the handler.                                                       *)
(*                                                                         *)
(* Time is in seconds.  Skill values (ADR) are integers.                   *)
(***************************************************************************)
EXTENDS Integers, Sequences, FiniteSets, TLC

VARIABLES
    matches,        \* table matches: row i has id i; [is_active, pinned]
    match_players,  \* table match_players: sequence of rows <<match_id, player_id>>
    players,        \* table players: the registered users (player id = user id)
    cooldowns,      \* table cooldowns: set of rows [player_id, cooldown_end]
    now,            \* the clock (time.time() and CURRENT_TIMESTAMP)
    tasks,          \* the handlers suspended at an await, by slot
    last,           \* the outcome of the handler segment that ran last
    leftAt,         \* per user, the time of the last successful leave (Never: not yet)
    balanceCalls,   \* per match, how often balance_teams_with_history was invoked
    fullEvents,     \* per match, how often an insert brought the pool from 9 to 10
    tenthJoins,     \* per match, how many joins reported "10/10" to the user
    ops,            \* number of requests received so far
    first_name,     \* players.first_name: the display name of each user
    player_stats,   \* table player_stats: set of rows [player_id, adr]
    balanced,       \* the last run of auto_balance_teams: what it read and computed
    emitted,        \* per match, how many balancing results were sent to the chat
    unswept,        \* table cooldowns as it would be had cleanup_cooldowns never run
    balIn,          \* input list of the balancer run (SpecBalance)
    balOut          \* its result

vars == <<matches, match_players, players, cooldowns, now, tasks, last, leftAt,
          balanceCalls, fullEvents, tenthJoins, ops, first_name, player_stats,
          balanced, emitted, unswept, balIn, balOut>>

dbVars == <<matches, match_players, players, cooldowns>>
evVars == <<balanceCalls, balanced, emitted>>
histVars == <<leftAt, fullEvents, tenthJoins, evVars, unswept>>
statVars == <<first_name, player_stats>>
balVars == <<balIn, balOut, statVars>>

-----------------------------------------------------------------------------
(* Bounds of the model *)

MaxOps == 2          \* requests received in one behaviour
MaxTasks == 2        \* handlers suspended at an await at the same time
MaxMatches == 2      \* rows of table matches
MaxTicks == 1        \* clock steps in one behaviour
TickSeconds == 60    \* seconds per clock step
NumUsers == 11       \* Telegram users 1..NumUsers
FirstActor == 9      \* users FirstActor..NumUsers send requests
InitFill == {9, 10}  \* pool sizes of the pre-filled initial states

Users == 1..NumUsers
Actors == FirstActor..NumUsers
MatchIds == 1..MaxMatches
MaxTime == MaxTicks * TickSeconds

(* Program constants *)

PoolCapacity == 10      \* join_game: player_count >= 10, player_count == 10
TeamSize == 5           \* balance_teams: itertools.combinations(players_pool, 5)
LeaveCooldown == 60     \* leave_game: set_cooldown(player_id, 60, "leave_cooldown")
DefaultAdr == 75        \* balance_teams_with_history: ... else 75.0

\* Python's None as the database functions return it (no row, or the call failed);
\* ids and timestamps are positive
None == 0

\* leftAt of a user who never left
Never == 0 - 1

-----------------------------------------------------------------------------
(* Sequence helpers *)

Range(s) == {s[i] : i \in DOMAIN s}

-----------------------------------------------------------------------------
(* The database functions.  ok = FALSE: the call raised (connection lost), *)
(* the function's except branch ran.                                      *)

\* matches rows with is_active = TRUE
ActiveIds(ms) == {i \in DOMAIN ms : ms[i].is_active}

\* get_active_match: the newest active match (ORDER BY created_at DESC LIMIT 1),
\* None when there is none or when the query failed
get_active_match(ms, ok) ==
    IF ok /\ ActiveIds(ms) # {}
    THEN CHOOSE i \in ActiveIds(ms) : \A j \in ActiveIds(ms) : j <= i
    ELSE None

\* create_match: INSERT INTO matches (is_active) VALUES (TRUE) RETURNING id
create_match(ms, ok) ==
    IF ok
    THEN [id |-> Len(ms) + 1,
          matches |-> Append(ms, [is_active |-> TRUE, pinned |-> FALSE])]
    ELSE [id |-> None, matches |-> ms]

\* deactivate_match: UPDATE matches SET is_active = FALSE WHERE id = match_id
deactivate_match(ms, match_id, ok) ==
    IF ok
    THEN [ok |-> TRUE, matches |-> [ms EXCEPT ![match_id].is_active = FALSE]]
    ELSE [ok |-> FALSE, matches |-> ms]

\* set_match_pinned_message: UPDATE matches SET pinned_message_id = ... WHERE id
set_match_pinned_message(ms, match_id, ok) ==
    IF ok THEN [ms EXCEPT ![match_id].pinned = TRUE] ELSE ms

\* get_or_create_player: upsert by telegram_id, returns the player id
get_or_create_player(pl, u, ok) ==
    IF ok THEN [id |-> u, players |-> pl \cup {u}]
    ELSE [id |-> None, players |-> pl]

\* add_player_to_match with the ON CONFLICT clause ignored: the row is always added
add_player_to_match_NoConflictCheck(mp, match_id, player_id, ok) ==
    IF ok THEN [ok |-> TRUE, rows |-> Append(mp, <<match_id, player_id>>)]
    ELSE [ok |-> FALSE, rows |-> mp]

\* add_player_to_match: INSERT ... ON CONFLICT (match_id, player_id) DO NOTHING;
\* returns True whether or not a row was inserted
add_player_to_match(mp, match_id, player_id, ok) ==
    IF ~ok THEN [ok |-> FALSE, rows |-> mp]
    ELSE IF <<match_id, player_id>> \in Range(mp)
         THEN [ok |-> TRUE, rows |-> mp]
         ELSE [ok |-> TRUE, rows |-> Append(mp, <<match_id, player_id>>)]

\* remove_player_from_match: DELETE ... WHERE match_id AND player_id; rowcount > 0
remove_player_from_match(mp, match_id, player_id, ok) ==
    LET Other(r) == r # <<match_id, player_id>>
    IN  IF ok /\ <<match_id, player_id>> \in Range(mp)
        THEN [ok |-> TRUE, rows |-> SelectSeq(mp, Other)]
        ELSE [ok |-> FALSE, rows |-> mp]

\* get_match_players: the rows of the match joined with players, [] on failure
get_match_players(mp, pl, match_id, ok) ==
    LET Mine(r) == r[1] = match_id /\ r[2] \in pl
        rows == SelectSeq(mp, Mine)
    IN  IF ok THEN [i \in DOMAIN rows |-> rows[i][2]] ELSE <<>>

\* get_match_player_count: SELECT COUNT(*) ... WHERE match_id, 0 on failure
get_match_player_count(mp, match_id, ok) ==
    IF ok THEN Cardinality({i \in DOMAIN mp : mp[i][1] = match_id}) ELSE 0

\* init_database: table cooldowns is created with PRIMARY KEY (id) only;
\* player_id carries no UNIQUE constraint
CooldownsPlayerIdUnique == FALSE

\* set_cooldown: INSERT ... ON CONFLICT (player_id) DO UPDATE.  PostgreSQL
\* rejects the statement when no unique constraint matches the conflict
\* target, whatever the table holds; the except branch returns False.
set_cooldown(cd, player_id, duration_seconds, t, ok) ==
    IF ok /\ CooldownsPlayerIdUnique
    THEN [ok |-> TRUE,
          rows |-> {r \in cd : r.player_id # player_id}
                   \cup {[player_id |-> player_id, cooldown_end |-> t + duration_seconds]}]
    ELSE [ok |-> FALSE, rows |-> cd]

\* the query of check_cooldown with >= for >: a cooldown ending now still counts
ActiveCooldowns_Inclusive(cd, player_id, t) ==
    {r \in cd : r.player_id = player_id /\ r.cooldown_end >= t}

\* the rows check_cooldown's query selects
ActiveCooldowns(cd, player_id, t) ==
    {r \in cd : r.player_id = player_id /\ r.cooldown_end > t}

\* check_cooldown: the end of an unexpired cooldown of the player, else None
check_cooldown(cd, player_id, t, ok) ==
    IF ok /\ ActiveCooldowns(cd, player_id, t) # {}
    THEN (CHOOSE r \in ActiveCooldowns(cd, player_id, t) : TRUE).cooldown_end
    ELSE None

\* cleanup_cooldowns with >= for <=: the sweep deletes the rows still running
cleanup_cooldowns_Unexpired(cd, t, ok) ==
    IF ok THEN {r \in cd : ~(r.cooldown_end >= t)} ELSE cd

\* cleanup_cooldowns: DELETE FROM cooldowns WHERE cooldown_end <= CURRENT_TIMESTAMP
cleanup_cooldowns(cd, t, ok) ==
    IF ok THEN {r \in cd : ~(r.cooldown_end <= t)} ELSE cd

-----------------------------------------------------------------------------
(* The team balancer.  An entry is <<name, skill>>; a pool is a sequence of *)
(* entries.                                                                 *)

\* float("inf"), the initial best_diff; every real difference is >= 0
Inf == 0 - 1

RECURSIVE SumSkills(_)
\* sum(p[1] for p in team)
SumSkills(team) ==
    IF team = <<>> THEN 0 ELSE team[1][2] + SumSkills(Tail(team))

Abs(x) == IF x < 0 THEN 0 - x ELSE x

RECURSIVE CombosFrom(_, _, _)
\* itertools.combinations over positions lo..n, k at a time: the sequence of
\* increasing position tuples in lexicographic order
CombosFrom(lo, n, k) ==
    IF k = 0 THEN << <<>> >>
    ELSE IF n - lo + 1 < k THEN <<>>
    ELSE LET with == CombosFrom(lo + 1, n, k - 1)
         IN  [i \in DOMAIN with |-> <<lo>> \o with[i]] \o CombosFrom(lo + 1, n, k)

\* the position tuples itertools.combinations(pool, 5) yields for a pool of n
PositionCombos == [n \in 0..NumUsers |-> CombosFrom(1, n, TeamSize)]

NoBest == [best_diff |-> Inf, best_team1 |-> <<>>, sum1 |-> 0,
           best_team2 |-> <<>>, sum2 |-> 0, found |-> FALSE]

\* the loop body with the absolute value left out: diff = sum1 - sum2
BalanceStep_NoAbs(players_pool, best, idx) ==
    LET team1 == [i \in DOMAIN idx |-> players_pool[idx[i]]]
        NotInTeam1(p) == p \notin Range(team1)
        team2 == SelectSeq(players_pool, NotInTeam1)
        sum1 == SumSkills(team1)
        sum2 == SumSkills(team2)
        diff == sum1 - sum2
    IN  IF best.best_diff = Inf \/ diff < best.best_diff
        THEN [best_diff |-> diff, best_team1 |-> team1, sum1 |-> sum1,
              best_team2 |-> team2, sum2 |-> sum2, found |-> TRUE]
        ELSE best

\* the loop body with <= for <: a later combination of equal difference wins
BalanceStep_ReplaceOnTie(players_pool, best, idx) ==
    LET team1 == [i \in DOMAIN idx |-> players_pool[idx[i]]]
        NotInTeam1(p) == p \notin Range(team1)
        team2 == SelectSeq(players_pool, NotInTeam1)
        sum1 == SumSkills(team1)
        sum2 == SumSkills(team2)
        diff == Abs(sum1 - sum2)
    IN  IF best.best_diff = Inf \/ diff <= best.best_diff
        THEN [best_diff |-> diff, best_team1 |-> team1, sum1 |-> sum1,
              best_team2 |-> team2, sum2 |-> sum2, found |-> TRUE]
        ELSE best

\* balance_teams lines 555-564, one iteration: team1 is the combination at
\* positions idx
BalanceStep(players_pool, best, idx) ==
    LET team1 == [i \in DOMAIN idx |-> players_pool[idx[i]]]
        NotInTeam1(p) == p \notin Range(team1)
        team2 == SelectSeq(players_pool, NotInTeam1)
        sum1 == SumSkills(team1)
        sum2 == SumSkills(team2)
        diff == Abs(sum1 - sum2)
    IN  IF best.best_diff = Inf \/ diff < best.best_diff
        THEN [best_diff |-> diff, best_team1 |-> team1, sum1 |-> sum1,
              best_team2 |-> team2, sum2 |-> sum2, found |-> TRUE]
        ELSE best

RECURSIVE BalanceLoop(_, _, _, _, _)
\* the for loop of balance_teams over the combinations lo..hi, in order,
\* starting from best.  The range is halved to keep the evaluation shallow:
\* the iterations lo..mid run first (the test on upto.found makes the
\* evaluator finish them), then mid+1..hi run from their result.
BalanceLoop(players_pool, combos, lo, hi, best) ==
    IF lo > hi THEN best
    ELSE IF lo = hi THEN BalanceStep(players_pool, best, combos[lo])
    ELSE LET mid == (lo + hi) \div 2
             upto == BalanceLoop(players_pool, combos, lo, mid, best)
         IN  IF upto.found
             THEN BalanceLoop(players_pool, combos, mid + 1, hi, upto)
             ELSE BalanceLoop(players_pool, combos, mid + 1, hi, upto)

\* balance_teams with the combinations taken from the last to the first
balance_teams_Backwards(players_pool) ==
    LET cs == PositionCombos[Len(players_pool)]
        rev == [i \in DOMAIN cs |-> cs[Len(cs) + 1 - i]]
    IN  BalanceLoop(players_pool, rev, 1, Len(rev), NoBest)

\* balance_teams(players_pool): (best_team1, best_team2, best_diff); found is
\* FALSE when the loop never ran and the teams are None
balance_teams(players_pool) ==
    LET cs == PositionCombos[Len(players_pool)]
    IN  BalanceLoop(players_pool, cs, 1, Len(cs), NoBest)

\* how a call of balance_teams ends: the function has no raise statement and
\* no test of its argument, it returns its triple, of teams or of None
BalanceOutcome(r) == IF r.found THEN "Teams" ELSE "NoneTeams"

\* AVG(adr) over no rows: SQL NULL
NoAvg == 0 - 1

\* PostgreSQL defines round(numeric, integer) and round(double precision).
\* player_stats.adr is FLOAT (double precision), so is AVG(adr), and the
\* statement SELECT ROUND(AVG(adr), 1) is rejected whatever the table holds.
RoundOfFloatToDigitsExists == FALSE

RECURSIVE SumAdr(_)
SumAdr(rows) ==
    IF rows = {} THEN 0
    ELSE LET r == CHOOSE x \in rows : TRUE IN r.adr + SumAdr(rows \ {r})

\* the query of lines 578-583: the average adr of the history rows of every
\* player whose first_name is player_name
AvgAdr(player_name) ==
    LET rows == {r \in player_stats : first_name[r.player_id] = player_name}
    IN  IF rows = {} THEN NoAvg ELSE SumAdr(rows) \div Cardinality(rows)

\* line 586: result[0] if result and result[0] else 75.0 (None and 0 are falsy)
SkillOf(player_name) ==
    LET avg == AvgAdr(player_name)
    IN  IF avg # NoAvg /\ avg # 0 THEN avg ELSE DefaultAdr

\* balance_teams_with_history with the except branch returning no teams
balance_teams_with_history_NoFallback(players_pool, okConn) ==
    LET FirstOf(i) == \A j \in 1..(i - 1) : players_pool[j] # players_pool[i]
        keys == SelectSeq([i \in DOMAIN players_pool |-> i], FirstOf)
        players_with_stats ==
            [i \in DOMAIN keys |->
                <<players_pool[keys[i]], SkillOf(players_pool[keys[i]])>>]
        QueryRaises == players_pool # <<>> /\ ~RoundOfFloatToDigitsExists
    IN  IF okConn /\ ~QueryRaises
        THEN [r |-> balance_teams(players_with_stats),
              stats |-> players_with_stats, fellBack |-> FALSE]
        ELSE [r |-> NoBest, stats |-> <<>>, fellBack |-> TRUE]

\* balance_teams_with_history(players_pool), players_pool a list of first
\* names.  Try branch: player_stats is a dict keyed by name (one entry per
\* distinct name, in the order of first occurrence) and the loop of
\* balance_teams runs over its items.  Except branch (the connection or the
\* query raised): balance_teams over [(name, 75.0) for name in players_pool].
balance_teams_with_history(players_pool, okConn) ==
    LET FirstOf(i) == \A j \in 1..(i - 1) : players_pool[j] # players_pool[i]
        keys == SelectSeq([i \in DOMAIN players_pool |-> i], FirstOf)
        players_with_stats ==
            [i \in DOMAIN keys |->
                <<players_pool[keys[i]], SkillOf(players_pool[keys[i]])>>]
        default_stats == [i \in DOMAIN players_pool |-> <<players_pool[i], DefaultAdr>>]
        QueryRaises == players_pool # <<>> /\ ~RoundOfFloatToDigitsExists
    IN  IF okConn /\ ~QueryRaises
        THEN [r |-> balance_teams(players_with_stats),
              stats |-> players_with_stats, fellBack |-> FALSE]
        ELSE [r |-> balance_teams(default_stats),
              stats |-> default_stats, fellBack |-> TRUE]

-----------------------------------------------------------------------------

(* The handlers *)

\* The ok flags of a handler segment, one per database call in the order of
\* the calls; the flag of a call the segment does not reach is immaterial and
\* is fixed to TRUE.
Flags(n) == [1..n -> BOOLEAN]
Unreached(ok, calls) == \A i \in DOMAIN ok : i > calls => ok[i]

\* a handler's slot: its position, its local variables and, for a join,
\* whether its insert made the pool's 10th member (filled)
Idle == [pc |-> "idle", user |-> 0, match_id |-> 0, player_count |-> 0,
         filled |-> FALSE]

NoLast == [op |-> "none", user |-> 0, res |-> "", at |-> 0,
           open |-> FALSE, member |-> FALSE, failed |-> FALSE]

\* the match a request arriving now belongs to, whatever the queries answer
OpenMatch == get_active_match(matches, TRUE)

\* number of match_players rows of a match
PoolSize(mp, match_id) == Cardinality({i \in DOMAIN mp : mp[i][1] = match_id})

IsMember(mp, match_id, u) == <<match_id, u>> \in Range(mp)

\* what the request's outcome record notes about the state the request met
Met(op, u, res) ==
    [op |-> op, user |-> u, res |-> res, at |-> now,
     open |-> OpenMatch # None,
     member |-> OpenMatch # None /\ IsMember(match_players, OpenMatch, u),
     failed |-> FALSE]

\* a database call the segment reached raised
Failed(ok, calls) == \E i \in DOMAIN ok : i <= calls /\ ~ok[i]

\* a request arrived in this step
Arrives(op) == ops' = ops + 1 /\ last'.op = op

FreeSlot(t) == tasks[t].pc = "idle" /\ \A s \in 1..(t - 1) : tasks[s].pc # "idle"

\* the player has no unexpired cooldown row: check_cooldown returns None
\* whether or not its query fails
NoCooldownRow(u) == ActiveCooldowns(cooldowns, u, now) = {}

\* join_game with the insert made before the capacity test
JoinOutcome_InsertFirst(u, okAM, okGC, okCD, okMP, okCnt, okAdd) ==
    LET match_id == get_active_match(matches, okAM)
        gc == get_or_create_player(players, u, okGC)
        cooldown_end == check_cooldown(cooldowns, gc.id, now, okCD)
        current_players == get_match_players(match_players, gc.players, match_id, okMP)
        player_count == get_match_player_count(match_players, match_id, okCnt)
        add == add_player_to_match(match_players, match_id, gc.id, okAdd)
        Fail(res, pl, calls) ==
            [res |-> res, players |-> pl, rows |-> match_players,
             match_id |-> 0, player_count |-> 0, calls |-> calls]
    IN  IF match_id = None THEN Fail("NoActiveSession", players, 1)
        ELSE IF gc.id = None THEN Fail("RegisterError", players, 2)
        ELSE IF cooldown_end # None THEN Fail("OnCooldown", gc.players, 3)
        ELSE IF gc.id \in Range(current_players) THEN Fail("AlreadyJoined", gc.players, 4)
        ELSE IF player_count >= PoolCapacity
             THEN [Fail("PoolFull", gc.players, 5) EXCEPT !.rows = add.rows]
        ELSE IF ~add.ok THEN Fail("AddError", gc.players, 6)
        ELSE [res |-> "Joined", players |-> gc.players, rows |-> add.rows,
              match_id |-> match_id, player_count |-> player_count + 1, calls |-> 6]

\* join_game up to its first await (lines 875-913): the outcome, the tables
\* after it and the handler's local variables
JoinOutcome(u, okAM, okGC, okCD, okMP, okCnt, okAdd) ==
    LET match_id == get_active_match(matches, okAM)
        gc == get_or_create_player(players, u, okGC)
        cooldown_end == check_cooldown(cooldowns, gc.id, now, okCD)
        current_players == get_match_players(match_players, gc.players, match_id, okMP)
        player_count == get_match_player_count(match_players, match_id, okCnt)
        add == add_player_to_match(match_players, match_id, gc.id, okAdd)
        Fail(res, pl, calls) ==
            [res |-> res, players |-> pl, rows |-> match_players,
             match_id |-> 0, player_count |-> 0, calls |-> calls]
    IN  IF match_id = None THEN Fail("NoActiveSession", players, 1)
        ELSE IF gc.id = None THEN Fail("RegisterError", players, 2)
        ELSE IF cooldown_end # None THEN Fail("OnCooldown", gc.players, 3)
        ELSE IF gc.id \in Range(current_players) THEN Fail("AlreadyJoined", gc.players, 4)
        ELSE IF player_count >= PoolCapacity THEN Fail("PoolFull", gc.players, 5)
        ELSE IF ~add.ok THEN Fail("AddError", gc.players, 6)
        ELSE [res |-> "Joined", players |-> gc.players, rows |-> add.rows,
              match_id |-> match_id, player_count |-> player_count + 1, calls |-> 6]

\* "+кс" arrives: join_game runs to its first await
JoinStart(t, u) ==
    /\ ops < MaxOps
    /\ FreeSlot(t)
    /\ \E ok \in Flags(6) :
         LET o == JoinOutcome(u, ok[1], ok[2], ok[3], ok[4], ok[5], ok[6])
             m == o.match_id
             filled == /\ o.res = "Joined"
                       /\ PoolSize(match_players, m) = PoolCapacity - 1
                       /\ PoolSize(o.rows, m) = PoolCapacity
         IN  /\ Unreached(ok, o.calls)
             /\ players' = o.players
             /\ match_players' = o.rows
             /\ NoCooldownRow(u) => ok[3]
             /\ last' = [Met("join", u, o.res) EXCEPT !.failed = Failed(ok, o.calls)]
             /\ tasks' = IF o.res = "Joined"
                         THEN [tasks EXCEPT ![t] = [pc |-> "join_answer", user |-> u,
                                   match_id |-> m, player_count |-> o.player_count,
                                   filled |-> filled]]
                         ELSE tasks
             /\ fullEvents' =
                  IF filled THEN [fullEvents EXCEPT ![m] = @ + 1] ELSE fullEvents
             /\ tenthJoins' =
                  IF o.res = "Joined" /\ o.player_count = PoolCapacity
                  THEN [tenthJoins EXCEPT ![m] = @ + 1] ELSE tenthJoins
    /\ ops' = ops + 1
    /\ UNCHANGED <<matches, cooldowns, now, leftAt, evVars, unswept, balVars>>

NoBalanced == [done |-> FALSE]

\* auto_balance_teams up to its await (lines 967-976): the member list it
\* reads, the names and skills it hands to the balancer and the result.  With
\* no teams (team1 is None) line 973 raises and nothing is sent.
auto_balance_teams(match_id, okMP, okConn) ==
    LET current == get_match_players(match_players, players, match_id, okMP)
        player_names == [i \in DOMAIN current |-> first_name[current[i]]]
        b == balance_teams_with_history(player_names, okConn)
    IN  [done |-> TRUE, match_id |-> match_id, players |-> current,
         listRead |-> okMP, filled |-> FALSE,
         open |-> matches[match_id].is_active,
         stats |-> b.stats, fellBack |-> b.fellBack, r |-> b.r]

\* the history query is reached and rejected: whether the connection was
\* made before it is immaterial, the except branch runs either way
HistoryQueryRaises(match_id, okMP) ==
    /\ get_match_players(match_players, players, match_id, okMP) # <<>>
    /\ ~RoundOfFloatToDigitsExists

\* join_game line 920 in the handler of slot t:
\* await auto_balance_teams(message, match_id)
AutoBalance(t) ==
    \E okMP, okConn \in BOOLEAN :
        LET match_id == tasks[t].match_id
            b == auto_balance_teams(match_id, okMP, okConn)
        IN  /\ HistoryQueryRaises(match_id, okMP) => okConn
            /\ balanceCalls' = [balanceCalls EXCEPT ![match_id] = @ + 1]
            /\ balanced' = [b EXCEPT !.filled = tasks[t].filled]
            /\ emitted' = IF b.r.found
                          THEN [emitted EXCEPT ![match_id] = @ + 1] ELSE emitted

\* the sweep finds no expired row: whether it fails is immaterial
NothingToSweep == cleanup_cooldowns(cooldowns, now, TRUE) = cooldowns

\* update_pinned_pool_message up to its await (lines 989-1004): TRUE when it
\* suspends at bot.edit_message_text
PinnedUpdateSuspends(match_id, okAM) ==
    LET active_match == get_active_match(matches, okAM)
    IN  active_match # None /\ active_match = match_id /\ matches[match_id].pinned

\* the join confirmation was sent (line 913); join_game goes on to
\* update_pinned_pool_message and, unless that suspends, to the balancing step
JoinAnswered(t) ==
    /\ tasks[t].pc = "join_answer"
    /\ \E okCl, okAM \in BOOLEAN :
         /\ NothingToSweep => okCl
         /\ ~PinnedUpdateSuspends(tasks[t].match_id, TRUE) => okAM
         /\ cooldowns' = cleanup_cooldowns(cooldowns, now, okCl)
         /\ IF PinnedUpdateSuspends(tasks[t].match_id, okAM)
            THEN /\ tasks' = [tasks EXCEPT ![t].pc = "join_edit"]
                 /\ UNCHANGED evVars
            ELSE /\ tasks' = [tasks EXCEPT ![t] = Idle]
                 /\ IF tasks[t].player_count = PoolCapacity
                    THEN AutoBalance(t)
                    ELSE UNCHANGED evVars
    /\ UNCHANGED <<matches, match_players, players, now, last, leftAt, fullEvents,
                   tenthJoins, unswept, ops, balVars>>

\* JoinEdited with the test player_count == 10 dropped: every join balances
JoinEdited_AlwaysBalance(t) ==
    /\ tasks[t].pc = "join_edit"
    /\ tasks' = [tasks EXCEPT ![t] = Idle]
    /\ AutoBalance(t)
    /\ UNCHANGED <<dbVars, now, last, leftAt, fullEvents, tenthJoins, unswept, ops,
                   balVars>>

\* bot.edit_message_text returned or raised (lines 1001-1010, the exception is
\* caught); join_game reaches the balancing step (lines 919-920)
JoinEdited(t) ==
    /\ tasks[t].pc = "join_edit"
    /\ tasks' = [tasks EXCEPT ![t] = Idle]
    /\ IF tasks[t].player_count = PoolCapacity
       THEN AutoBalance(t)
       ELSE UNCHANGED evVars
    /\ UNCHANGED <<dbVars, now, last, leftAt, fullEvents, tenthJoins, unswept, ops,
                   balVars>>

\* message.answer raised in a handler (nothing catches it): the handler ends
AnswerFailed(t) ==
    /\ tasks[t].pc \in {"join_answer", "leave_answer", "game_answer"}
    /\ tasks' = [tasks EXCEPT ![t] = Idle]
    /\ UNCHANGED <<dbVars, now, last, histVars, ops, balVars>>

\* leave_game up to its first await (lines 928-955)
LeaveOutcome(u, okAM, okSel, okRm, okCd, okCnt) ==
    LET match_id == get_active_match(matches, okAM)
        rm == remove_player_from_match(match_players, match_id, u, okRm)
        cd == set_cooldown(cooldowns, u, LeaveCooldown, now, okCd)
        Fail(res, calls) ==
            [res |-> res, rows |-> match_players, cooldowns |-> cooldowns,
             match_id |-> 0, player_count |-> 0, calls |-> calls]
    IN  IF match_id = None THEN Fail("NoActiveSession", 1)
        ELSE IF ~okSel THEN Fail("Crashed", 2)
        ELSE IF u \notin players THEN Fail("PlayerNotFound", 2)
        ELSE IF ~rm.ok THEN Fail("NotInPool", 3)
        ELSE [res |-> "Left", rows |-> rm.rows, cooldowns |-> cd.rows,
              match_id |-> match_id,
              player_count |-> get_match_player_count(rm.rows, match_id, okCnt),
              calls |-> 5]

\* "-кс" arrives: leave_game runs to its first await
LeaveStart(t, u) ==
    /\ ops < MaxOps
    /\ FreeSlot(t)
    /\ \E ok \in Flags(5) :
         LET o == LeaveOutcome(u, ok[1], ok[2], ok[3], ok[4], ok[5])
         IN  /\ Unreached(ok, o.calls)
             /\ match_players' = o.rows
             /\ cooldowns' = o.cooldowns
             /\ unswept' = IF o.res = "Left"
                           THEN set_cooldown(unswept, u, LeaveCooldown, now, ok[4]).rows
                           ELSE unswept
             /\ ~CooldownsPlayerIdUnique => ok[4]
             /\ last' = [Met("leave", u, o.res) EXCEPT !.failed = Failed(ok, o.calls)]
             /\ leftAt' = IF o.res = "Left" THEN [leftAt EXCEPT ![u] = now] ELSE leftAt
             /\ tasks' = IF o.res = "Left"
                         THEN [tasks EXCEPT ![t] = [pc |-> "leave_answer", user |-> u,
                                   match_id |-> o.match_id,
                                   player_count |-> o.player_count,
                                   filled |-> FALSE]]
                         ELSE tasks
    /\ ops' = ops + 1
    /\ UNCHANGED <<matches, players, now, evVars, fullEvents, tenthJoins, balVars>>

\* the leave confirmation was sent (line 955); leave_game ends with
\* update_pinned_pool_message (line 960), whose first statement sweeps the cooldowns
LeaveAnswered(t) ==
    /\ tasks[t].pc = "leave_answer"
    /\ \E okCl \in BOOLEAN :
         /\ NothingToSweep => okCl
         /\ cooldowns' = cleanup_cooldowns(cooldowns, now, okCl)
    /\ tasks' = [tasks EXCEPT ![t] = Idle]
    /\ UNCHANGED <<matches, match_players, players, now, last, histVars, ops, balVars>>

\* game_command up to its first await (lines 649-666)
GameOutcome(okAM, okCreate) ==
    LET active_match == get_active_match(matches, okAM)
        cm == create_match(matches, okCreate)
    IN  IF active_match # None
        THEN [res |-> "AlreadyOpen", matches |-> matches, match_id |-> 0, calls |-> 1]
        ELSE IF cm.id = None
        THEN [res |-> "CreateError", matches |-> matches, match_id |-> 0, calls |-> 2]
        ELSE [res |-> "Opened", matches |-> cm.matches, match_id |-> cm.id, calls |-> 2]

\* "/game" arrives
GameStart(t) ==
    /\ ops < MaxOps
    /\ FreeSlot(t)
    /\ \E ok \in Flags(2) :
         LET o == GameOutcome(ok[1], ok[2])
         IN  /\ Unreached(ok, o.calls)
             /\ o.res = "Opened" => Len(matches) < MaxMatches
             /\ matches' = o.matches
             /\ last' = [Met("game", 0, o.res) EXCEPT !.failed = Failed(ok, o.calls)]
             /\ tasks' = IF o.res = "Opened"
                         THEN [tasks EXCEPT ![t] = [pc |-> "game_answer", user |-> 0,
                                   match_id |-> o.match_id, player_count |-> 0,
                                   filled |-> FALSE]]
                         ELSE tasks
    /\ ops' = ops + 1
    /\ UNCHANGED <<match_players, players, cooldowns, now, histVars, balVars>>

\* the announcement was sent (line 666); game_command awaits bot.pin_chat_message
GameAnswered(t) ==
    /\ tasks[t].pc = "game_answer"
    /\ tasks' = [tasks EXCEPT ![t].pc = "game_pin"]
    /\ UNCHANGED <<dbVars, now, last, histVars, ops, balVars>>

\* bot.pin_chat_message returned (okPin) or raised; lines 673-677
GamePinned(t) ==
    /\ tasks[t].pc = "game_pin"
    /\ \E okPin, okSet \in BOOLEAN :
         /\ ~okPin => okSet
         /\ matches' = IF okPin
                       THEN set_match_pinned_message(matches, tasks[t].match_id, okSet)
                       ELSE matches
    /\ tasks' = [tasks EXCEPT ![t] = Idle]
    /\ UNCHANGED <<match_players, players, cooldowns, now, last, histVars, ops, balVars>>

\* stop_game up to its first await (lines 683-692); nothing it does later
\* touches the tables
StopOutcome(okAM, okDe) ==
    LET active_match == get_active_match(matches, okAM)
        de == deactivate_match(matches, active_match, okDe)
    IN  IF active_match = None THEN [res |-> "NotOpen", matches |-> matches, calls |-> 1]
        ELSE IF de.ok THEN [res |-> "Closed", matches |-> de.matches, calls |-> 2]
        ELSE [res |-> "StopError", matches |-> matches, calls |-> 2]

\* "/stopgame" arrives
StopGame ==
    /\ ops < MaxOps
    /\ \E ok \in Flags(2) :
         LET o == StopOutcome(ok[1], ok[2])
         IN  /\ Unreached(ok, o.calls)
             /\ matches' = o.matches
             /\ last' = [Met("stop", 0, o.res) EXCEPT !.failed = Failed(ok, o.calls)]
    /\ ops' = ops + 1
    /\ UNCHANGED <<match_players, players, cooldowns, now, tasks, histVars, balVars>>

\* the clock advances
Tick ==
    /\ now + TickSeconds <= MaxTime
    /\ now' = now + TickSeconds
    /\ UNCHANGED <<dbVars, tasks, last, histVars, ops, balVars>>

-----------------------------------------------------------------------------
(* The bot *)

NoCalls == [m \in MatchIds |-> 0]

\* the state after init_database on an empty database
InitEmpty ==
    /\ matches = <<>>
    /\ match_players = <<>>
    /\ players = {}
    /\ balanceCalls = NoCalls
    /\ fullEvents = NoCalls
    /\ tenthJoins = NoCalls
    /\ emitted = NoCalls

\* a state the bot reaches by one /game and the joins of users 1..k, every
\* call and message of which succeeded; with k = 10 the balancer has run once
InitFilled ==
    \E k \in InitFill, pinned \in BOOLEAN :
        /\ matches = <<[is_active |-> TRUE, pinned |-> pinned]>>
        /\ match_players = [i \in 1..k |-> <<1, i>>]
        /\ players = 1..k
        /\ LET n == IF k = PoolCapacity THEN 1 ELSE 0
               h == [m \in MatchIds |-> IF m = 1 THEN n ELSE 0]
           IN  balanceCalls = h /\ fullEvents = h /\ tenthJoins = h /\ emitted = h

\* every user has a first name of their own and nobody has played yet
InitNames ==
    /\ first_name = [u \in Users |-> u]
    /\ player_stats = {}

Init ==
    /\ InitEmpty \/ InitFilled
    /\ InitNames
    /\ cooldowns = {}
    /\ unswept = {}
    /\ now = 0
    /\ tasks = [t \in 1..MaxTasks |-> Idle]
    /\ last = NoLast
    /\ leftAt = [u \in Users |-> Never]
    /\ balanced = NoBalanced
    /\ ops = 0
    /\ balIn = <<>>
    /\ balOut = [done |-> FALSE]

Next ==
    \/ \E t \in 1..MaxTasks, u \in Actors : JoinStart(t, u)
    \/ \E t \in 1..MaxTasks : JoinAnswered(t)
    \/ \E t \in 1..MaxTasks : JoinEdited(t)
    \/ \E t \in 1..MaxTasks : AnswerFailed(t)
    \/ \E t \in 1..MaxTasks, u \in Actors : LeaveStart(t, u)
    \/ \E t \in 1..MaxTasks : LeaveAnswered(t)
    \/ \E t \in 1..MaxTasks : GameStart(t)
    \/ \E t \in 1..MaxTasks : GameAnswered(t)
    \/ \E t \in 1..MaxTasks : GamePinned(t)
    \/ StopGame
    \/ Tick

Spec == Init /\ [][Next]_vars

-----------------------------------------------------------------------------
(* The cooldown gate on its own: the cooldown test of join_game and the     *)
(* sweep of update_pinned_pool_message over every small cooldowns table.    *)

GateUsers == {1, 2}
CooldownEnds == {30, 60, 120}

\* join_game lines 891-896: the request is refused when check_cooldown
\* returns a time
CooldownGate(u) ==
    /\ ops < MaxOps
    /\ \E ok \in BOOLEAN :
         last' = [NoLast EXCEPT !.op = "gate", !.user = u, !.at = now,
                     !.failed = ~ok,
                     !.res = IF check_cooldown(cooldowns, u, now, ok) # None
                             THEN "OnCooldown" ELSE "Pass"]
    /\ ops' = ops + 1
    /\ UNCHANGED <<dbVars, now, tasks, histVars, balVars>>

\* update_pinned_pool_message line 990: cleanup_cooldowns()
Sweep ==
    /\ \E ok \in BOOLEAN : cooldowns' = cleanup_cooldowns(cooldowns, now, ok)
    /\ UNCHANGED <<matches, match_players, players, now, tasks, last, histVars, ops,
                   balVars>>

InitCooldown ==
    /\ InitEmpty
    /\ InitNames
    /\ balanced = NoBalanced
    /\ cooldowns \in SUBSET [player_id : GateUsers, cooldown_end : CooldownEnds]
    /\ unswept = cooldowns
    /\ now = 0
    /\ tasks = [t \in 1..MaxTasks |-> Idle]
    /\ last = NoLast
    /\ leftAt = [u \in Users |-> Never]
    /\ ops = 0
    /\ balIn = <<>>
    /\ balOut = [done |-> FALSE]

NextCooldown ==
    \/ \E u \in GateUsers : CooldownGate(u)
    \/ Sweep
    \/ Tick

SpecCooldown == InitCooldown /\ [][NextCooldown]_vars

\* C6: a join request of a player all of whose cooldown rows have expired
\* (cooldown_end <= now) passes the cooldown test, swept or not.
ExpiredCooldownIsAbsent ==
    [][(/\ Arrives("gate")
        /\ \A r \in cooldowns : r.player_id = last'.user => r.cooldown_end <= now)
          => last'.res = "Pass"]_vars

\* C6 witness: the test let a player pass whose cooldown row, expired at the
\* time of the request, is still in the table
PassedWithExpiredRow ==
    /\ last.op = "gate" /\ last.res = "Pass" /\ last.at = now
    /\ \E r \in cooldowns : r.player_id = last.user /\ r.cooldown_end = now
    /\ \A r \in cooldowns : r.player_id = last.user => r.cooldown_end <= now

\* C22: the sweep deletes no cooldown that ends in the future, and the
\* swept table and the never-swept one give every cooldown test, now and
\* later, the same rows: each request gets the outcome it would get had no
\* sweep ever run.
SweepingNotNeeded ==
    [][/\ \A r \in cooldowns \ cooldowns' : r.cooldown_end <= now
       /\ \A u \in Users, t \in now'..MaxTime :
            ActiveCooldowns(cooldowns', u, t) = ActiveCooldowns(unswept', u, t)
       /\ Arrives("gate") =>
            last'.res = IF check_cooldown(unswept, last'.user, now, ~last'.failed) # None
                        THEN "OnCooldown" ELSE "Pass"]_vars

\* C22 witness: a player with a cooldown still running was refused after the
\* sweep had deleted an expired row of the same player
RefusedAfterSweep ==
    /\ last.op = "gate" /\ last.res = "OnCooldown" /\ last.at = now
    /\ \E r \in unswept \ cooldowns : r.player_id = last.user

-----------------------------------------------------------------------------
(* The requests on their own: join and leave requests arriving at a bot     *)
(* whose cooldowns table holds rows of the users in RowUsers, ending at     *)
(* the times in RowEnds.                                                    *)

RowUsers == {FirstActor, NumUsers}
RowEnds == {30, 120}

InitRequests ==
    /\ InitEmpty \/ InitFilled
    /\ InitNames
    /\ cooldowns \in SUBSET [player_id : RowUsers, cooldown_end : RowEnds]
    /\ unswept = cooldowns
    /\ now = 0
    /\ tasks = [t \in 1..MaxTasks |-> Idle]
    /\ last = NoLast
    /\ leftAt = [u \in Users |-> Never]
    /\ balanced = NoBalanced
    /\ ops = 0
    /\ balIn = <<>>
    /\ balOut = [done |-> FALSE]

NextRequests ==
    \/ \E t \in 1..MaxTasks, u \in Actors : JoinStart(t, u)
    \/ \E t \in 1..MaxTasks, u \in Actors : LeaveStart(t, u)
    \/ Tick

SpecRequests == InitRequests /\ [][NextRequests]_vars

\* the outcomes by which a join or a leave request is refused
JoinRefusals == {"NoActiveSession", "OnCooldown", "AlreadyJoined", "PoolFull"}
LeaveRefusals == {"NoActiveSession", "NotInPool"}

\* C25: a join request answered NoActiveSession, OnCooldown, AlreadyJoined or
\* PoolFull and a leave request answered NotInPool or NoActiveSession change
\* no pool membership and no cooldown row.
RefusedRequestsChangeNothing ==
    [][(\/ Arrives("join") /\ last'.res \in JoinRefusals
        \/ Arrives("leave") /\ last'.res \in LeaveRefusals)
          => (match_players' = match_players /\ cooldowns' = cooldowns)]_vars

\* C25 witness: a player whose cooldown is running asked to join an open
\* session with a free slot and was refused
RefusedOnCooldown ==
    /\ last.op = "join" /\ last.res = "OnCooldown" /\ last.open
    /\ ActiveCooldowns(cooldowns, last.user, now) # {}
    /\ PoolSize(match_players, OpenMatch) = PoolCapacity - 1

-----------------------------------------------------------------------------
(* The balancing step on its own: the pool of match 1 has just been filled  *)
(* by users 1..10, the handler of the tenth join is about to send its       *)
(* confirmation.  The first FreeNames users carry a first name drawn from   *)
(* SharedNames, the others a name of their own; the users in StatPlayers    *)
(* have at most one history row each, with adr drawn from AdrValues.        *)

FreeNames == 6
SharedNames == {1, 2}
StatPlayers == {1, 7}
AdrValues == {0, 100}

InitTeams ==
    /\ matches = <<[is_active |-> TRUE, pinned |-> FALSE]>>
    /\ match_players = [i \in 1..PoolCapacity |-> <<1, i>>]
    /\ players = 1..PoolCapacity
    /\ \E f \in [1..FreeNames -> SharedNames] :
         first_name = [u \in Users |-> IF u <= FreeNames THEN f[u] ELSE u]
    /\ \E S \in SUBSET StatPlayers : \E a \in [S -> AdrValues] :
         player_stats = {[player_id |-> u, adr |-> a[u]] : u \in S}
    /\ balanceCalls = NoCalls
    /\ emitted = NoCalls
    /\ fullEvents = [m \in MatchIds |-> IF m = 1 THEN 1 ELSE 0]
    /\ tenthJoins = [m \in MatchIds |-> IF m = 1 THEN 1 ELSE 0]
    /\ cooldowns = {}
    /\ unswept = {}
    /\ now = 0
    /\ tasks = [t \in 1..MaxTasks |->
                  IF t = 1 THEN [pc |-> "join_answer", user |-> PoolCapacity,
                                 match_id |-> 1, player_count |-> PoolCapacity,
                                 filled |-> TRUE]
                  ELSE Idle]
    /\ last = NoLast
    /\ leftAt = [u \in Users |-> Never]
    /\ balanced = NoBalanced
    /\ ops = 1
    /\ balIn = <<>>
    /\ balOut = [done |-> FALSE]

NextTeams == \E t \in 1..MaxTasks : JoinAnswered(t)

SpecTeams == InitTeams /\ [][NextTeams]_vars

(* Properties of the balancing step *)

\* the balancer was handed the full pool
BalancedFullPool ==
    balanced.done /\ balanced.listRead /\ Len(balanced.players) = PoolCapacity

\* how often a first name occurs among the entries of a team
Occurrences(team, name) == Cardinality({i \in DOMAIN team : team[i][1] = name})

\* C11: the teams of every balancing of a full pool have exactly 5 entries
\* each and together hold every member exactly once: every first name occurs
\* on the two teams together as often as among the 10 members.
TeamsArePartition ==
    BalancedFullPool =>
        /\ balanced.r.found
        /\ Len(balanced.r.best_team1) = TeamSize
        /\ Len(balanced.r.best_team2) = TeamSize
        /\ \A u \in Range(balanced.players) :
             Occurrences(balanced.r.best_team1, first_name[u])
               + Occurrences(balanced.r.best_team2, first_name[u])
             = Cardinality({v \in Range(balanced.players) :
                               first_name[v] = first_name[u]})

\* the first names that no history row belongs to
NoHistoryNames ==
    {first_name[u] : u \in Users} \ {first_name[r.player_id] : r \in player_stats}

\* C15: every balancing of a full pool ends with two teams and a difference,
\* whatever history exists and whether or not the history lookup works; the
\* players without history enter with skill 75, and all players do when the
\* lookup failed.
BalancingCompletes ==
    BalancedFullPool =>
        /\ balanced.r.found
        /\ balanced.r.best_diff >= 0
        /\ Len(balanced.r.best_team1) = TeamSize
        /\ balanced.r.best_team2 # <<>>
        /\ \A i \in DOMAIN balanced.stats :
             (balanced.fellBack \/ balanced.stats[i][1] \in NoHistoryNames)
               => balanced.stats[i][2] = DefaultAdr

\* C15 witness: a full pool with members with and without history was
\* balanced after the history lookup had failed
BalancedWithoutHistoryLookup ==
    /\ BalancedFullPool
    /\ balanced.fellBack
    /\ balanced.r.found
    /\ \E u, v \in Range(balanced.players) :
         /\ first_name[u] \in NoHistoryNames
         /\ first_name[v] \notin NoHistoryNames

\* the history rows of a player
OwnRows(u) == {r \in player_stats : r.player_id = u}

\* no other member of the balanced pool carries the player's first name
NameIsOwn(u) ==
    \A v \in Range(balanced.players) : first_name[v] = first_name[u] => v = u

\* C23: in every balancing of a full pool, a member (whose first name is
\* that member's alone) enters with the average adr of the member's history
\* rows when there is at least one, whatever the average, and with 75 when
\* there is none.
SkillIsHistoricalAverage ==
    BalancedFullPool =>
        \A u \in Range(balanced.players) :
            NameIsOwn(u) =>
                \E i \in DOMAIN balanced.stats :
                    /\ balanced.stats[i][1] = first_name[u]
                    /\ balanced.stats[i][2] =
                         IF OwnRows(u) = {} THEN DefaultAdr
                         ELSE SumAdr(OwnRows(u)) \div Cardinality(OwnRows(u))

-----------------------------------------------------------------------------
(* Properties of the admission handlers *)

JoinInFlight == \E t \in 1..MaxTasks : tasks[t].pc \in {"join_answer", "join_edit"}

\* C1: in every reachable state an open session has at most 10 pool memberships.
CapacityInvariant ==
    \A m \in ActiveIds(matches) : PoolSize(match_players, m) <= PoolCapacity

\* C2: in every reachable state no (session, player) pair has two pool
\* memberships.
MembershipUnique ==
    \A i, j \in DOMAIN match_players :
        match_players[i] = match_players[j] => i = j

\* C2 witness: a player who was already in the pool joined again, the "already
\* joined" test did not stop the request and the insert reported success
MemberJoinedAgain ==
    last.op = "join" /\ last.res = "Joined" /\ last.member

\* C3: in every reachable state at most one session is open.
SingleOpenSession == Cardinality(ActiveIds(matches)) <= 1

\* C4: a /game request that arrives while a session is open is answered
\* AlreadyOpen and leaves the sessions and their pools as they were.
OpenWhileOpenIsRefused ==
    [][(Arrives("game") /\ ActiveIds(matches) # {})
          => (last'.res = "AlreadyOpen"
              /\ matches' = matches /\ match_players' = match_players)]_vars

\* C5: a join request of a player whose last successful leave was at time T,
\* arriving before T + 60 s, does not add the player to a pool.
CooldownGating ==
    [][(/\ Arrives("join")
        /\ leftAt[last'.user] # Never
        /\ now < leftAt[last'.user] + LeaveCooldown)
          => (last'.res # "Joined" /\ match_players' = match_players)]_vars

\* the player left a pool less than 60 s ago
OnCooldown(u) == leftAt[u] # Never /\ now < leftAt[u] + LeaveCooldown

\* C12: a join request that meets at least one of the rejection conditions is
\* answered with the first that holds in the order NoActiveSession,
\* OnCooldown, AlreadyJoined, PoolFull (every storage call of the request
\* succeeding).
JoinPrecedence ==
    [][(Arrives("join") /\ ~last'.failed) =>
         LET u == last'.user
         IN  IF OpenMatch = None THEN last'.res = "NoActiveSession"
             ELSE IF OnCooldown(u) THEN last'.res = "OnCooldown"
             ELSE IF IsMember(match_players, OpenMatch, u)
                  THEN last'.res = "AlreadyJoined"
             ELSE IF PoolSize(match_players, OpenMatch) >= PoolCapacity
                  THEN last'.res = "PoolFull"
             ELSE TRUE]_vars

\* the handler that was started by the request of this step
Started(t, pc) == tasks[t].pc = "idle" /\ tasks'[t].pc = pc

\* C13: the count a successful join reports is the number of members its
\* session has right after the insert; a join of a new player to an open
\* session of 10 or more members is answered PoolFull and changes no pool.
JoinCountIsPoolSize ==
    [][/\ (Arrives("join") /\ last'.res = "Joined") =>
            \E t \in 1..MaxTasks :
                /\ Started(t, "join_answer")
                /\ tasks'[t].player_count
                     = PoolSize(match_players', tasks'[t].match_id)
       /\ (/\ Arrives("join")
           /\ OpenMatch # None
           /\ ~IsMember(match_players, OpenMatch, last'.user)
           /\ PoolSize(match_players, OpenMatch) >= PoolCapacity)
            => (last'.res = "PoolFull" /\ match_players' = match_players)]_vars

\* the cooldown rows of a player
CooldownsOf(cd, u) == {r \in cd : r.player_id = u}

\* C14: a leave request of a member of the open session (every storage call
\* of the request succeeding) removes that membership and no other, leaves the
\* player with a cooldown ending 60 s later and reports the new member count;
\* a leave request of a player who has just left is answered NotInPool and
\* changes neither the pools nor the player's cooldown.
LeaveSemantics ==
    [][(Arrives("leave") /\ ~last'.failed) =>
         LET u == last'.user
             NotMine(r) == r # <<OpenMatch, u>>
         IN  /\ last'.member =>
                  /\ last'.res = "Left"
                  /\ match_players' = SelectSeq(match_players, NotMine)
                  /\ \E r \in CooldownsOf(cooldowns', u) :
                         r.cooldown_end = now + LeaveCooldown
                  /\ \E t \in 1..MaxTasks :
                         /\ Started(t, "leave_answer")
                         /\ tasks'[t].player_count
                              = PoolSize(match_players', OpenMatch)
             /\ (last'.open /\ ~last'.member /\ leftAt[u] = now) =>
                  /\ last'.res = "NotInPool"
                  /\ match_players' = match_players
                  /\ CooldownsOf(cooldowns', u) = CooldownsOf(cooldowns, u)]_vars

\* the outcomes by which the bot reports an error rather than an answer: its
\* three error messages and the unhandled exception of leave_game
StorageUnavailable == {"RegisterError", "AddError", "CreateError", "Crashed"}

\* C16: an open-session, join or leave request that arrives while a session
\* is open and during which a storage call raised ends with an error outcome,
\* not with an answer computed from the default value the failed call
\* returned.
StorageFailureReported ==
    [][(/\ ops' = ops + 1
        /\ last'.op \in {"game", "join", "leave"}
        /\ last'.open
        /\ last'.failed)
          => last'.res \in StorageUnavailable]_vars

\* C17: a /stopgame request with no session open is answered NotOpen; with a
\* session open it closes that session (or reports that the update failed);
\* a closed session is never open again; while no session is open every join
\* request is answered NoActiveSession; a newly created session has no
\* members.
CloseIsTerminal ==
    [][/\ (Arrives("stop") /\ ActiveIds(matches) = {})
            => (last'.res = "NotOpen" /\ matches' = matches)
       /\ (Arrives("stop") /\ ActiveIds(matches) # {})
            => \/ last'.res = "Closed" /\ OpenMatch \notin ActiveIds(matches')
               \/ last'.res = "StopError" /\ matches' = matches
       /\ \A m \in DOMAIN matches :
            ~matches[m].is_active => ~matches'[m].is_active
       /\ (Arrives("join") /\ ActiveIds(matches) = {})
            => (last'.res = "NoActiveSession" /\ match_players' = match_players)
       /\ \A m \in DOMAIN matches' :
            m \notin DOMAIN matches => PoolSize(match_players', m) = 0]_vars

\* the open session has 10 or more members
PoolAtCapacity ==
    OpenMatch # None /\ PoolSize(match_players, OpenMatch) >= PoolCapacity

\* C18: no step other than a /stopgame request closes an open session, so a
\* session stays open when its pool fills and is balanced; a join request of
\* a new player to the open session with a full pool is answered PoolFull,
\* and a leave request of a member of that pool is served.
FullPoolStaysOpen ==
    [][/\ \A m \in ActiveIds(matches) :
            m \in ActiveIds(matches') \/ Arrives("stop")
       /\ (Arrives("join") /\ PoolAtCapacity /\ ~last'.member)
            => last'.res = "PoolFull"
       /\ (Arrives("leave") /\ PoolAtCapacity /\ last'.member)
            => (/\ last'.res = "Left"
                /\ ~IsMember(match_players', OpenMatch, last'.user))]_vars

\* C7: once no join handler is in flight, the balancer has been invoked exactly
\* once for every time an insert brought a pool from 9 to 10 members.
ExactlyOnceBalancing ==
    ~JoinInFlight => \A m \in MatchIds : balanceCalls[m] = fullEvents[m]

\* C19: every run of the balancing step that follows the insert of a 10th
\* member reads a member list that has lost none of the 10: no leave takes
\* effect between the insert and the read.  (A list of more than 10 is the
\* matter of C1.)
BalancingReadsFullPool ==
    (/\ balanced.done
     /\ balanced.listRead
     /\ balanced.filled)
        => Len(balanced.players) >= PoolCapacity

\* C20: once the join handlers have ended, every insert that filled a pool has
\* been followed by a balancing result for that session (no storage call
\* having failed on the way).
FullnessLeadsToBalancing ==
    (/\ ~JoinInFlight
     /\ ~last.failed
     /\ balanced.done => balanced.listRead)
        => \A m \in MatchIds : emitted[m] >= fullEvents[m]

\* C21: once the join handlers have ended, a session that was balanced, lost
\* a member by a leave and was filled to 10 again by a later join has been
\* balanced a second time (no storage call having failed on the way).
RefillRebalances ==
    \A m \in MatchIds :
        (/\ ~JoinInFlight
         /\ ~last.failed
         /\ last.op = "join" /\ last.res = "Joined"
         /\ fullEvents[m] = 2
         /\ leftAt # [u \in Users |-> Never])
            => balanceCalls[m] = 2

\* the precondition of the balancer: an even number of entries, enough for
\* two full teams
ValidInput(pool) == Len(pool) % 2 = 0 /\ Len(pool) >= 2 * TeamSize

\* C24: a run of the balancer over a list that is odd or too short for two
\* full teams (the members having been read) ends with an InvalidInput error,
\* not with teams and not with None.
InvalidInputIsRefused ==
    (/\ balanced.done
     /\ balanced.listRead
     /\ ~ValidInput(balanced.stats))
        => BalanceOutcome(balanced.r) = "InvalidInput"

\* C26: a balancing result is sent for a session only while the session is
\* open: a /stopgame that takes effect after the 10th insert and before the
\* balancing step prevents the result.
BalancingOnlyWhileOpen ==
    (/\ balanced.done
     /\ balanced.filled
     /\ balanced.r.found)
        => balanced.open

-----------------------------------------------------------------------------
(* The balancer on its own, over every pool of 10 distinct players whose    *)
(* first FreeLen skills are drawn from SkillValues.                         *)

FreeLen == 6
SkillValues == {60, 75, 100}
BaseSkills == <<100, 90, 80, 70, 60, 50, 40, 30, 20, 10>>

NoResult == [done |-> FALSE]

InitBalance ==
    /\ InitEmpty
    /\ InitNames
    /\ balanced = NoBalanced
    /\ cooldowns = {}
    /\ unswept = {}
    /\ now = 0
    /\ tasks = [t \in 1..MaxTasks |-> Idle]
    /\ last = NoLast
    /\ leftAt = [u \in Users |-> Never]
    /\ ops = 0
    /\ \E f \in [1..FreeLen -> SkillValues] :
         balIn = [i \in 1..(2 * TeamSize) |->
                    <<i, IF i <= FreeLen THEN f[i] ELSE BaseSkills[i]>>]
    /\ balOut = NoResult

\* balance_teams is applied to the pool
Balance ==
    /\ ~balOut.done
    /\ balOut' = [done |-> TRUE, r |-> balance_teams(balIn)]
    /\ UNCHANGED <<dbVars, now, tasks, last, histVars, ops, balIn, statVars>>

SpecBalance == InitBalance /\ [][Balance]_vars

(* Properties of the balancer *)

RECURSIVE SetSum(_, _)
SetSum(pool, S) ==
    IF S = {} THEN 0
    ELSE LET i == CHOOSE j \in S : TRUE IN pool[i][2] + SetSum(pool, S \ {i})

\* the sets of TeamSize positions of a pool
Halves(pool) == {S \in SUBSET DOMAIN pool : Cardinality(S) = TeamSize}

\* |sum(S) - sum(complement of S)|
Imbalance(pool, S) == Abs(SetSum(pool, S) - SetSum(pool, DOMAIN pool \ S))

MinImbalance(pool) ==
    LET ds == {Imbalance(pool, S) : S \in Halves(pool)}
    IN  CHOOSE d \in ds : \A e \in ds : d <= e

MinimalHalves(pool) ==
    LET least == MinImbalance(pool)
    IN  {S \in Halves(pool) : Imbalance(pool, S) = least}

Min(S) == CHOOSE x \in S : \A y \in S : x <= y

\* S comes before T in the enumeration order of combinations
Precedes(S, T) == S # T /\ Min((S \ T) \cup (T \ S)) \in S

\* the positions of the pool's entries that are in the team
PositionsOf(pool, team) == {i \in DOMAIN pool : pool[i] \in Range(team)}

\* C9: for every pool of 10 distinct players the returned difference is the
\* least |sum(S) - sum(rest)| over all 5-element subsets S, and the returned
\* sums are the skill sums of the two returned teams.
BalancerMinimal ==
    balOut.done =>
        /\ balOut.r.found
        /\ balOut.r.best_diff = MinImbalance(balIn)
        /\ balOut.r.sum1 = SetSum(balIn, PositionsOf(balIn, balOut.r.best_team1))
        /\ balOut.r.sum2 = SetSum(balIn, PositionsOf(balIn, balOut.r.best_team2))

\* C9 witness: the balancer improved on the first combination and the best
\* split is not even
ImprovedOnFirstCombination ==
    /\ balOut.done
    /\ balOut.r.best_diff > 0
    /\ PositionsOf(balIn, balOut.r.best_team1) # 1..TeamSize
    /\ Imbalance(balIn, 1..TeamSize) > balOut.r.best_diff

\* C10: the first returned team is the first 5-element subset, in the
\* enumeration order of combinations over the input positions, whose
\* difference is the minimum, listed in input order.
FirstMinimalWins ==
    balOut.done =>
        LET S == PositionsOf(balIn, balOut.r.best_team1)
            minimal == MinimalHalves(balIn)
        IN  /\ S \in minimal
            /\ \A T \in minimal : ~Precedes(T, S)
            /\ \A i, j \in DOMAIN balOut.r.best_team1 :
                 i < j => balOut.r.best_team1[i][1] < balOut.r.best_team1[j][1]

\* C10 witness: several splits other than the returned one and its mirror
\* reach the minimum
TieBetweenSplits ==
    /\ balOut.done
    /\ \E T \in MinimalHalves(balIn) :
         /\ T # PositionsOf(balIn, balOut.r.best_team1)
         /\ T # PositionsOf(balIn, balOut.r.best_team2)

\* C27: for every pool of 10 distinct players the first returned team holds
\* the entry at the first input position.
FirstEntryOnFirstTeam ==
    balOut.done =>
        /\ balOut.r.found
        /\ balIn[1] \in Range(balOut.r.best_team1)

\* C27 witness: the returned split was not the first one tried, its mirror
\* (the same split with the teams exchanged, tried later) has the same
\* difference, and the first entry is on the first team
FirstEntryKeptOnTie ==
    /\ balOut.done
    /\ 1 \in PositionsOf(balIn, balOut.r.best_team1)
    /\ PositionsOf(balIn, balOut.r.best_team1) # 1..TeamSize
    /\ Imbalance(balIn, PositionsOf(balIn, balOut.r.best_team2)) = balOut.r.best_diff

====
